---- MODULE Spec2Model ----
(***************************************************************************)
(* A model of app.py: the BLAST web front-end.  The state is the two       *)
(* tables (User, Task), the login session of every browser, the wall       *)
(* clock, and the position of every blast request in flight.  The result   *)
(* normalizer parse_blast_results and the JSON conversion are operators.   *)
(***************************************************************************)
EXTENDS Integers, Sequences, FiniteSets, TLC

\* ------------------------------------------------------------------ bounds

\* Largest number of nodes (records + alignments + HSPs) of a report that
\* the alignment service returns in the normalizer's specification.
MaxNodes == 6
\* Largest number of rows of the Task table.
MaxTasks == 2
\* Last second of the wall clock.
MaxClock == 1

\* ------------------------------------------------------------- input data

\* Numbers that Python holds as floats (score, expect) are written as the
\* integer count of a fixed unit; a copy keeps the count.
HspValues ==
  { [score |-> 100, expect |-> 3, query_start |-> 1, query_end |-> 60,
     query |-> "ACGT-ACC ", match |-> "|||| || ", sbjct |-> "ACGTTACG "],
    [score |-> 80, expect |-> 17, query_start |-> 12, query_end |-> 45,
     query |-> " GGCA", match |-> " | ||", sbjct |-> " GTCA"] }

AlignmentHeaders ==
  { [title |-> "Homo sapiens clone X", length |-> 500],
    [title |-> "Mus musculus clone Y", length |-> 320] }

\* The reports of at most b nodes, built from the inside out.
RECURSIVE HspSeqs(_)
HspSeqs(b) ==
  IF b <= 0 THEN {<<>>}
  ELSE {<<>>} \cup {<<h>> \o rest : h \in HspValues, rest \in HspSeqs(b - 1)}

AlignmentsWithin(b) ==
  IF b <= 0 THEN {}
  ELSE {[title |-> hd.title, length |-> hd.length, hsps |-> hs] :
          hd \in AlignmentHeaders, hs \in HspSeqs(b - 1)}

AlignmentNodes(a) == 1 + Len(a.hsps)

RECURSIVE AlignmentSeqs(_)
AlignmentSeqs(b) ==
  IF b <= 0 THEN {<<>>}
  ELSE {<<>>} \cup
       UNION {{<<a>> \o rest : rest \in AlignmentSeqs(b - AlignmentNodes(a))} :
                a \in AlignmentsWithin(b)}

RECURSIVE SumNodes(_)
SumNodes(as) ==
  IF as = <<>> THEN 0 ELSE AlignmentNodes(Head(as)) + SumNodes(Tail(as))

RecordNodes(rec) == 1 + SumNodes(rec.alignments)

RecordsWithin(b) ==
  IF b <= 0 THEN {}
  ELSE {[alignments |-> as] : as \in AlignmentSeqs(b - 1)}

RECURSIVE RecordSeqs(_)
RecordSeqs(b) ==
  IF b <= 0 THEN {<<>>}
  ELSE {<<>>} \cup
       UNION {{<<rec>> \o rest : rest \in RecordSeqs(b - RecordNodes(rec))} :
                rec \in RecordsWithin(b)}

\* The text that result_handle.read() returns, seen as NCBIXML.parse sees
\* it: the records its iterator yields, in order, and whether the iterator
\* then ends (valid) or raises (the text is malformed from there on).
Documents == {[records |-> rs, valid |-> v] : rs \in RecordSeqs(MaxNodes), v \in BOOLEAN}

\* The end-to-end example: one record, one alignment, two HSPs.
ExampleHsps ==
  << CHOOSE h \in HspValues : h.score = 100, CHOOSE h \in HspValues : h.score = 80 >>

ExampleRecord ==
  [alignments |-> << [title |-> "Homo sapiens clone X", length |-> 500, hsps |-> ExampleHsps] >>]

OneHspRecord ==
  [alignments |-> << [title |-> "Mus musculus clone Y", length |-> 320,
                      hsps |-> << CHOOSE h \in HspValues : h.score = 80 >>] >>]

\* What the service answers in the specification of the whole application:
\* a report of no record, and a text that breaks off after one record.
SampleDocuments ==
  { [records |-> <<>>, valid |-> TRUE],
    [records |-> <<OneHspRecord>>, valid |-> FALSE] }

\* ------------------------------------------------------------- normalizer

\* A slip in the dict: e_value filled from the score.
MatchEntryScoreAsExpect(alignment, hsp) ==
  [title |-> alignment.title, length |-> alignment.length,
   score |-> hsp.score, e_value |-> hsp.score,
   query_start |-> hsp.query_start, query_end |-> hsp.query_end,
   qseq |-> hsp.query, match |-> hsp.match, hseq |-> hsp.sbjct]

\* The dict appended at lines 53-63.
MatchEntry(alignment, hsp) ==
  [title |-> alignment.title, length |-> alignment.length,
   score |-> hsp.score, e_value |-> hsp.expect,
   query_start |-> hsp.query_start, query_end |-> hsp.query_end,
   qseq |-> hsp.query, match |-> hsp.match, hseq |-> hsp.sbjct]

\* A slip in the inner loop: insert(0, ...) in place of append.
RECURSIVE HspLoopInsertsFirst(_, _, _)
HspLoopInsertsFirst(alignment, hsps, parsed_results) ==
  IF hsps = <<>> THEN parsed_results
  ELSE HspLoopInsertsFirst(alignment, Tail(hsps),
                           <<MatchEntry(alignment, Head(hsps))>> \o parsed_results)

\* for hsp in alignment.hsps: parsed_results.append({...})
RECURSIVE HspLoop(_, _, _)
HspLoop(alignment, hsps, parsed_results) ==
  IF hsps = <<>> THEN parsed_results
  ELSE HspLoop(alignment, Tail(hsps),
               Append(parsed_results, MatchEntry(alignment, Head(hsps))))

\* A slip in the middle loop: only alignment.hsps[0] is reported.
RECURSIVE AlignmentLoopFirstHsp(_, _)
AlignmentLoopFirstHsp(alignments, parsed_results) ==
  IF alignments = <<>> THEN parsed_results
  ELSE AlignmentLoopFirstHsp(
         Tail(alignments),
         HspLoop(Head(alignments),
                 IF Head(alignments).hsps = <<>> THEN <<>>
                 ELSE <<Head(Head(alignments).hsps)>>,
                 parsed_results))

\* for alignment in blast_record.alignments: ...
RECURSIVE AlignmentLoop(_, _)
AlignmentLoop(alignments, parsed_results) ==
  IF alignments = <<>> THEN parsed_results
  ELSE AlignmentLoop(Tail(alignments),
                     HspLoop(Head(alignments), Head(alignments).hsps, parsed_results))

\* A slip in the outer loop: the iterator's exception is caught and the
\* list built so far is returned.
RECURSIVE RecordLoopReturnsPartial(_, _, _)
RecordLoopReturnsPartial(records, valid, parsed_results) ==
  IF records = <<>>
  THEN [raised |-> FALSE, value |-> parsed_results]
  ELSE RecordLoopReturnsPartial(Tail(records), valid,
                                AlignmentLoop(Head(records).alignments, parsed_results))

\* for blast_record in blast_records: the iterator yields the records one
\* by one; when it raises, the exception leaves the function and the list
\* built so far is lost with the frame.
RECURSIVE RecordLoop(_, _, _)
RecordLoop(records, valid, parsed_results) ==
  IF records = <<>>
  THEN IF valid THEN [raised |-> FALSE, value |-> parsed_results]
       ELSE [raised |-> TRUE]
  ELSE RecordLoop(Tail(records), valid,
                  AlignmentLoop(Head(records).alignments, parsed_results))

parse_blast_results(blast_results) ==
  RecordLoop(blast_results.records, blast_results.valid, <<>>)

\* ------------------------------------------------------------------- JSON

\* A JSON text is the sequence of its tokens.
Punct(c) == [t |-> "punct", v |-> c]
Str(s) == [t |-> "string", v |-> s]
Num(n) == [t |-> "number", v |-> n]

\* json.dumps of one dict: the keys in insertion order.
DumpsEntry(e) ==
  << Punct("{"),
     Str("title"), Punct(":"), Str(e.title), Punct(","),
     Str("length"), Punct(":"), Num(e.length), Punct(","),
     Str("score"), Punct(":"), Num(e.score), Punct(","),
     Str("e_value"), Punct(":"), Num(e.e_value), Punct(","),
     Str("query_start"), Punct(":"), Num(e.query_start), Punct(","),
     Str("query_end"), Punct(":"), Num(e.query_end), Punct(","),
     Str("qseq"), Punct(":"), Str(e.qseq), Punct(","),
     Str("match"), Punct(":"), Str(e.match), Punct(","),
     Str("hseq"), Punct(":"), Str(e.hseq),
     Punct("}") >>

RECURSIVE DumpsItems(_)
DumpsItems(entries) ==
  IF entries = <<>> THEN <<>>
  ELSE IF Len(entries) = 1 THEN DumpsEntry(Head(entries))
  ELSE DumpsEntry(Head(entries)) \o <<Punct(",")>> \o DumpsItems(Tail(entries))

\* json.dumps(parsed_results)
dumps(entries) == <<Punct("[")>> \o DumpsItems(entries) \o <<Punct("]")>>

\* The members of an object, from the key at position i up to its "}".
RECURSIVE LoadsObject(_, _, _)
LoadsObject(toks, i, obj) ==
  LET member == obj @@ (toks[i].v :> toks[i + 2].v)
  IN  IF toks[i + 3] = Punct("}")
      THEN [value |-> member, next |-> i + 4]
      ELSE LoadsObject(toks, i + 4, member)

\* The elements of an array, from the "{" at position i up to its "]".
RECURSIVE LoadsArray(_, _, _)
LoadsArray(toks, i, acc) ==
  LET o == LoadsObject(toks, i + 1, [k \in {} |-> 0])
  IN  IF toks[o.next] = Punct("]")
      THEN Append(acc, o.value)
      ELSE LoadsArray(toks, o.next + 1, Append(acc, o.value))

\* json.loads(text)
loads(toks) ==
  IF toks[2] = Punct("]") THEN <<>> ELSE LoadsArray(toks, 2, <<>>)

\* json.loads(task.result) if task.result else []
StoredResults(task) ==
  IF task.result = <<>> THEN <<>> ELSE loads(task.result)

\* ------------------------------------------------------------------ state

Clients == {"c1", "c2"}
Usernames == {"alice", "bob"}
Passwords == {"pw1"}
Programs == {"blastn"}
Databases == {"nt"}
Sequences == {"ACGTTGCA"}

\* current_user of a browser that is not logged in.
NoUser == 0

VARIABLES
  users,      \* the User table: rows [id, username, password]
  tasks,      \* the Task table: rows [id, taskname, program, database,
              \*                       sequence, result, user_id]
  session,    \* per browser, the user id its session cookie holds
  now,        \* the wall clock, in whole seconds
  req,        \* per browser, its blast POST request in flight
  last        \* the last response: "blast_error" when it is the error that
              \* the blast handler flashes, "page" when it is any other page

vars == <<users, tasks, session, now, req, last>>

Idle == [pc |-> "idle"]

Init ==
  /\ users = {}
  /\ tasks = {}
  /\ session = [c \in Clients |-> NoUser]
  /\ now = 0
  /\ req = [c \in Clients |-> Idle]
  /\ last = "page"

\* The integer primary key the database gives a new row: one more than the
\* largest key of the table.
NextId(table) ==
  IF table = {} THEN 1
  ELSE 1 + (CHOOSE n \in {row.id : row \in table} : \A row \in table : row.id <= n)

\* @login_required: an anonymous request is answered with the login page.
LoginRequired(c) ==
  /\ session[c] = NoUser
  /\ last' = "page"
  /\ UNCHANGED <<users, tasks, session, now, req>>

\* ---------------------------------------------------------- user accounts

register(username, password) ==
  /\ IF \E u \in users : u.username = username
     THEN UNCHANGED users
     ELSE users' = users \cup
            {[id |-> NextId(users), username |-> username, password |-> password]}
  /\ last' = "page"
  /\ UNCHANGED <<tasks, session, now, req>>

login(c, username, password) ==
  /\ IF \E u \in users : u.username = username /\ u.password = password
     THEN LET user == CHOOSE u \in users : u.username = username
          IN  session' = [session EXCEPT ![c] = user.id]
     ELSE UNCHANGED session
  /\ last' = "page"
  /\ UNCHANGED <<users, tasks, now, req>>

logout(c) ==
  \/ LoginRequired(c)
  \/ /\ session[c] # NoUser
     /\ session' = [session EXCEPT ![c] = NoUser]
     /\ last' = "page"
     /\ UNCHANGED <<users, tasks, now, req>>

\* ------------------------------------------------------------------ blast

\* The request enters the handler: login_required, then the GET form or the
\* POST branch up to the call of NCBIWWW.qblast.  req[c].steps lists the
\* steps the request has started.
BlastBegin(c, method, program, database, sequence) ==
  \/ LoginRequired(c)
  \/ /\ session[c] # NoUser
     /\ method = "GET"
     /\ last' = "page"
     /\ UNCHANGED <<users, tasks, session, now, req>>
  \/ /\ session[c] # NoUser
     /\ method = "POST"
     /\ req[c].pc = "idle"
     /\ Cardinality(tasks) + Cardinality({d \in Clients : req[d].pc # "idle"}) < MaxTasks
     /\ req' = [req EXCEPT ![c] =
                  [pc |-> "qblast", user |-> session[c], program |-> program,
                   database |-> database, sequence |-> sequence,
                   steps |-> <<"submit">>]]
     /\ UNCHANGED <<users, tasks, session, now, last>>

\* A slip in the handler: the task is saved without its result.
BlastExceptSavesTask(c) ==
  /\ tasks' = tasks \cup
        {[id |-> NextId(tasks), taskname |-> <<"blastn", "_", "nt", "_", "failed">>,
          program |-> "blastn", database |-> "nt", sequence |-> "ACGTTGCA",
          result |-> <<>>, user_id |-> req[c].user]}
  /\ req' = [req EXCEPT ![c] = Idle]
  /\ last' = "blast_error"
  /\ UNCHANGED <<users, session, now>>

\* A slip in the handler: the service is called again.
BlastExceptRetries(c) ==
  /\ req' = [req EXCEPT ![c] =
               [pc |-> "qblast", user |-> req[c].user, program |-> "blastn",
                database |-> "nt", sequence |-> "ACGTTGCA",
                steps |-> Append(req[c].steps, "submit")]]
  /\ last' = "blast_error"
  /\ UNCHANGED <<users, tasks, session, now>>

\* except Exception as e: flash the error and render the form again.
BlastExcept(c) ==
  /\ req' = [req EXCEPT ![c] = Idle]
  /\ last' = "blast_error"
  /\ UNCHANGED <<users, tasks, session, now>>

\* qblast and read return the report text, or raise.
BlastFetch(c, documents) ==
  /\ req[c].pc = "qblast"
  /\ \/ \E text \in documents :
          /\ req' = [req EXCEPT ![c] =
                       [pc |-> "parse", user |-> req[c].user, program |-> req[c].program,
                        database |-> req[c].database, sequence |-> req[c].sequence,
                        steps |-> req[c].steps, blast_results |-> text]]
          /\ UNCHANGED <<users, tasks, session, now, last>>
     \/ BlastExcept(c)

\* parsed_results = parse_blast_results(io.StringIO(blast_results))
BlastParse(c) ==
  /\ req[c].pc = "parse"
  /\ LET r == req[c]
         got == parse_blast_results(r.blast_results)
     IN  IF got.raised
         THEN BlastExcept(c)
         ELSE /\ req' = [req EXCEPT ![c] =
                           [pc |-> "build", user |-> r.user, program |-> r.program,
                            database |-> r.database, sequence |-> r.sequence,
                            steps |-> Append(r.steps, "normalize"),
                            blast_results |-> r.blast_results,
                            parsed_results |-> got.value]]
              /\ UNCHANGED <<users, tasks, session, now, last>>

\* f"{program}_{database}_{datetime.now().strftime('%Y%m%d_%H%M%S')}": the
\* clock is read to the second.
FormatTaskname(program, database, second) == <<program, "_", database, "_", second>>

\* task = Task(taskname=..., result=json.dumps(parsed_results), ...)
BlastBuild(c) ==
  /\ req[c].pc = "build"
  /\ LET r == req[c]
     IN  req' = [req EXCEPT ![c] =
                   [pc |-> "commit", user |-> r.user,
                    steps |-> Append(r.steps, "serialize"),
                    task |-> [taskname |-> FormatTaskname(r.program, r.database, now),
                              program |-> r.program, database |-> r.database,
                              sequence |-> r.sequence,
                              result |-> dumps(r.parsed_results),
                              user_id |-> r.user]]]
  /\ UNCHANGED <<users, tasks, session, now, last>>

\* db.session.add(task); db.session.commit(): taskname is unique, and a
\* second row of the same name makes the commit raise.
BlastCommit(c) ==
  /\ req[c].pc = "commit"
  /\ LET r == req[c]
     IN  IF \E t \in tasks : t.taskname = r.task.taskname
         THEN BlastExcept(c)
         ELSE /\ tasks' = tasks \cup
                    {[id |-> NextId(tasks), taskname |-> r.task.taskname,
                      program |-> r.task.program, database |-> r.task.database,
                      sequence |-> r.task.sequence, result |-> r.task.result,
                      user_id |-> r.task.user_id]}
              /\ req' = [req EXCEPT ![c] = Idle]
              /\ last' = "page"
              /\ UNCHANGED <<users, session, now>>

\* ------------------------------------------------------ results and delete

\* A slip: the owner check left out.
OwnerNotChecked(task, current_user_id) == TRUE

\* if task.user_id != current_user.id: refuse
OwnerIsCurrentUser(task, current_user_id) == task.user_id = current_user_id

\* What results(username, taskname) answers to browser c: the page, the
\* current user, the owner of the task found and the results rendered.
results_page(c, username, taskname) ==
  LET found == {t \in tasks : /\ t.taskname = taskname
                              /\ \E u \in users : u.username = username /\ u.id = t.user_id}
      task == CHOOSE t \in found : TRUE
  IN  IF session[c] = NoUser
      THEN [op |-> "login", user |-> NoUser, owner |-> NoUser, shown |-> <<>>]
      ELSE IF found = {}
      THEN [op |-> "404", user |-> session[c], owner |-> NoUser, shown |-> <<>>]
      ELSE IF ~OwnerIsCurrentUser(task, session[c])
      THEN [op |-> "denied", user |-> session[c], owner |-> task.user_id, shown |-> <<>>]
      ELSE [op |-> "results", user |-> session[c], owner |-> task.user_id,
            shown |-> StoredResults(task)]

\* The names a results request may ask for.
Tasknames ==
  {FormatTaskname(p, d, s) : p \in Programs, d \in Databases, s \in 0..MaxClock}

\* A results request of browser c, for any username and task name: the
\* handler answers with results_page and writes nothing to the tables.
results(c) ==
  /\ \E username \in Usernames, taskname \in Tasknames :
        results_page(c, username, taskname).op \in {"login", "404", "denied", "results"}
  /\ last' = "page"
  /\ UNCHANGED <<users, tasks, session, now, req>>

\* A slip: any task that exists may be deleted.
MayDeleteAnyTask(found, current_user_id) == found # {}

\* if task and task.user_id == current_user.id: delete
MayDelete(found, current_user_id) ==
  found # {} /\ \A t \in found : t.user_id = current_user_id

delete_task(c, task_id) ==
  \/ LoginRequired(c)
  \/ /\ session[c] # NoUser
     /\ LET found == {t \in tasks : t.id = task_id}
        IN  IF MayDelete(found, session[c])
            THEN tasks' = tasks \ found
            ELSE UNCHANGED tasks
     /\ last' = "page"
     /\ UNCHANGED <<users, session, now, req>>

\* A second passes.
Tick ==
  /\ now < MaxClock
  /\ now' = now + 1
  /\ UNCHANGED <<users, tasks, session, req, last>>

Next ==
  \/ \E u \in Usernames, p \in Passwords : register(u, p)
  \/ \E c \in Clients, u \in Usernames, p \in Passwords : login(c, u, p)
  \/ \E c \in Clients : logout(c)
  \/ \E c \in Clients, m \in {"GET", "POST"}, p \in Programs, d \in Databases,
        s \in Sequences : BlastBegin(c, m, p, d, s)
  \/ \E c \in Clients : BlastFetch(c, SampleDocuments)
  \/ \E c \in Clients : BlastParse(c)
  \/ \E c \in Clients : BlastBuild(c)
  \/ \E c \in Clients : BlastCommit(c)
  \/ \E c \in Clients : results(c)
  \/ \E c \in Clients, id \in 1..MaxTasks : delete_task(c, id)
  \/ Tick

Spec == Init /\ [][Next]_vars

\* The normalizer on every report of at most MaxNodes nodes: one user, one
\* browser, one submission, and the page that shows it.
NextParse ==
  \/ register("alice", "pw1")
  \/ login("c1", "alice", "pw1")
  \/ (tasks = {} /\ BlastBegin("c1", "POST", "blastn", "nt", "ACGTTGCA"))
  \/ BlastFetch("c1", Documents)
  \/ BlastParse("c1")
  \/ BlastBuild("c1")
  \/ BlastCommit("c1")
  \/ results("c1")

SpecParse == Init /\ [][NextParse]_vars

\* ----------------------------------------------------------------- claims

\* The HSPs of a report, counted record by record.
RECURSIVE CountInAlignments(_)
CountInAlignments(alignments) ==
  IF alignments = <<>> THEN 0
  ELSE Len(Head(alignments).hsps) + CountInAlignments(Tail(alignments))

RECURSIVE CountHsps(_)
CountHsps(records) ==
  IF records = <<>> THEN 0
  ELSE CountInAlignments(Head(records).alignments) + CountHsps(Tail(records))

\* The HSPs of a report by position: <<record, alignment, hsp>>.
HspIndexes(records) ==
  UNION {UNION {{<<i, j, k>> : k \in 1..Len(records[i].alignments[j].hsps)} :
                  j \in 1..Len(records[i].alignments)} :
           i \in 1..Len(records)}

LexLess(a, b) ==
  \/ a[1] < b[1]
  \/ a[1] = b[1] /\ a[2] < b[2]
  \/ a[1] = b[1] /\ a[2] = b[2] /\ a[3] < b[3]

\* The place in the output of the HSP at index t: one more than the number
\* of HSPs that come before it.
Place(records, t) == 1 + Cardinality({u \in HspIndexes(records) : LexLess(u, t)})

\* The requests whose normalizer has returned its list.
Normalized == {c \in Clients : req[c].pc = "build"}

\* C1: the list parse_blast_results returns has exactly one entry per HSP of
\* the report: its length is the number of HSPs summed over all alignments
\* of all records.
C1_OneEntryPerHsp ==
  \A c \in Normalized :
    Len(req[c].parsed_results) = CountHsps(req[c].blast_results.records)

\* C1 witness: a list of at least two entries returned for a report that
\* also holds a record without alignments and an alignment without HSPs.
C1_Witness ==
  \E c \in Normalized :
    LET records == req[c].blast_results.records
    IN  /\ Len(req[c].parsed_results) >= 2
        /\ \E i \in 1..Len(records) : records[i].alignments = <<>>
        /\ \E i \in 1..Len(records) :
             \E j \in 1..Len(records[i].alignments) : records[i].alignments[j].hsps = <<>>

\* C2: the output keeps the nesting order of the input, without reordering
\* or deduplication: the entry of every HSP stands at the place given by
\* the number of HSPs before it in (record, alignment, hsp) order.
C2_InputOrderKept ==
  \A c \in Normalized :
    LET records == req[c].blast_results.records
        out == req[c].parsed_results
    IN  /\ Len(out) = Cardinality(HspIndexes(records))
        /\ \A t \in HspIndexes(records) :
             LET hsp == records[t[1]].alignments[t[2]].hsps[t[3]]
                 e == out[Place(records, t)]
             IN  <<e.score, e.e_value, e.query_start, e.query_end, e.qseq, e.match, e.hseq>>
                   = <<hsp.score, hsp.expect, hsp.query_start, hsp.query_end,
                       hsp.query, hsp.match, hsp.sbjct>>

\* C2 witness: a report with two different HSPs in record 1 / alignment 1,
\* an HSP in record 1 / alignment 2, and two HSPs of identical fields.
C2_Witness ==
  \E c \in Normalized :
    LET records == req[c].blast_results.records
    IN  /\ Len(records) >= 1
        /\ Len(records[1].alignments) >= 2
        /\ Len(records[1].alignments[1].hsps) >= 2
        /\ records[1].alignments[1].hsps[1] # records[1].alignments[1].hsps[2]
        /\ Len(records[1].alignments[2].hsps) >= 1
        /\ records[1].alignments[2].hsps[1] = records[1].alignments[1].hsps[1]
        /\ Len(req[c].parsed_results) = 3

\* C3: every field of every entry is the unmodified value of its source:
\* title and length of the enclosing alignment, the seven others of the
\* entry's own HSP.
C3_FieldsCopied ==
  \A c \in Normalized :
    LET records == req[c].blast_results.records
        out == req[c].parsed_results
    IN  \A t \in HspIndexes(records) :
          LET alignment == records[t[1]].alignments[t[2]]
              hsp == alignment.hsps[t[3]]
          IN  /\ Place(records, t) \in 1..Len(out)
              /\ out[Place(records, t)] =
                   [title |-> alignment.title, length |-> alignment.length,
                    score |-> hsp.score, e_value |-> hsp.expect,
                    query_start |-> hsp.query_start, query_end |-> hsp.query_end,
                    qseq |-> hsp.query, match |-> hsp.match, hseq |-> hsp.sbjct]

\* C3 witness: the example of one record, one alignment ("Homo sapiens
\* clone X", 500) and two HSPs: two entries, scores 100 then 80.
C3_Witness ==
  \E c \in Normalized :
    /\ req[c].blast_results = [records |-> <<ExampleRecord>>, valid |-> TRUE]
    /\ Len(req[c].parsed_results) = 2
    /\ \A n \in 1..2 : /\ req[c].parsed_results[n].title = "Homo sapiens clone X"
                       /\ req[c].parsed_results[n].length = 500
    /\ req[c].parsed_results[1].score = 100
    /\ req[c].parsed_results[2].score = 80

\* A text that is malformed, at once or after some records.
Malformed(c) == req[c].pc = "parse" /\ ~req[c].blast_results.valid

\* C4: on a text that is not a valid report, also one that breaks off after
\* well-formed records, parse_blast_results returns no list: the call ends
\* in the one error, the request is over, and nothing from it is stored.
C4_NoListOnMalformedInput ==
  [][\A c \in Clients :
       Malformed(c) =>
         /\ parse_blast_results(req[c].blast_results) = [raised |-> TRUE]
         /\ req'[c] # req[c] =>
              /\ req'[c] = Idle
              /\ last' = "blast_error"
              /\ tasks' = tasks]_vars

\* C4 witness: the normalizer is at a text that breaks off after a record
\* with HSPs, and raises.
C4_Witness ==
  \E c \in Clients :
    /\ Malformed(c)
    /\ CountHsps(req[c].blast_results.records) >= 2
    /\ parse_blast_results(req[c].blast_results).raised

\* C5: a submission whose fetch or normalization fails leaves the Task table
\* as it was, flashes the error, and ends after its one call of the service.
C5_FailureStoresNothing ==
  [][\A c \in Clients :
       (req[c].pc \in {"qblast", "parse"} /\ req'[c] # req[c]) =>
         \/ /\ req'[c].pc \in {"parse", "build"}
            /\ tasks' = tasks
         \/ /\ req'[c] = Idle
            /\ tasks' = tasks
            /\ last' = "blast_error"
            /\ req[c].steps = <<"submit">>]_vars

\* C5 witness: the error was flashed and the table holds no row.
C5_Witness ==
  /\ last = "blast_error"
  /\ tasks = {}
  /\ \A c \in Clients : req[c] = Idle

\* C6: the results page shows a task's stored result only to the logged-in
\* owner of the task: never to another user, never to an anonymous browser.
C6_ResultsOnlyForOwner ==
  \A c \in Clients, username \in Usernames, taskname \in Tasknames :
    LET page == results_page(c, username, taskname)
    IN  page.op = "results" =>
          /\ session[c] # NoUser
          /\ \E t \in tasks : /\ t.taskname = taskname
                              /\ t.user_id = session[c]
                              /\ page.owner = t.user_id
                              /\ page.shown = StoredResults(t)

\* C6 witness: a logged-in user asks for the task of another user and is
\* refused, and an anonymous browser is sent to the login page.
C6_Witness ==
  /\ \E c \in Clients, username \in Usernames, taskname \in Tasknames :
       /\ results_page(c, username, taskname).op = "denied"
       /\ results_page(c, username, taskname).owner # session[c]
  /\ \E c \in Clients, username \in Usernames, taskname \in Tasknames :
       /\ session[c] = NoUser
       /\ \E t \in tasks : t.taskname = taskname
       /\ results_page(c, username, taskname).op = "login"

\* The serialized empty list.
EmptyList == <<Punct("["), Punct("]")>>

\* C7: a report of zero records is normalized to the empty list without an
\* error; the submission then persists a Task whose result is the serialized
\* empty list, and the results page renders it as an empty sequence.
C7_EmptyReportIsStored ==
  [][\A c \in Clients :
       /\ (/\ req[c].pc = "parse"
           /\ req[c].blast_results = [records |-> <<>>, valid |-> TRUE]
           /\ req'[c] # req[c])
          => (req'[c].pc = "build" /\ req'[c].parsed_results = <<>>)
       /\ (/\ req[c].pc = "build"
           /\ req[c].parsed_results = <<>>
           /\ req'[c] # req[c])
          => (req'[c].pc = "commit" /\ req'[c].task.result = EmptyList)
       /\ (/\ req[c].pc = "commit"
           /\ req[c].task.result = EmptyList
           /\ req'[c] # req[c])
          => \E t \in tasks' \ tasks :
               /\ t.result = EmptyList
               /\ StoredResults(t) = <<>>]_vars

\* C8: a blast request goes through submit, normalize, serialize, store in
\* this order, each once; the Task is written only by a request that has done
\* the first three; a GET request does none of them.
StepsDone(c) ==
  /\ req[c].pc \in {"qblast", "parse"} => req[c].steps = <<"submit">>
  /\ req[c].pc = "build" => req[c].steps = <<"submit", "normalize">>
  /\ req[c].pc = "commit" => req[c].steps = <<"submit", "normalize", "serialize">>

C8_StepsInOrder ==
  [][/\ \A c \in Clients : StepsDone(c)'
     /\ \A c \in Clients :
          req'[c] # req[c] =>
            <<req[c].pc, req'[c].pc>> \in
              { <<"idle", "qblast">>, <<"qblast", "parse">>, <<"parse", "build">>,
                <<"build", "commit">>, <<"commit", "idle">>,
                <<"qblast", "idle">>, <<"parse", "idle">> }
     /\ tasks' \ tasks # {} =>
          \E c \in Clients :
            /\ req[c].pc = "commit"
            /\ req[c].steps = <<"submit", "normalize", "serialize">>
            /\ req'[c] = Idle
            /\ Cardinality(tasks' \ tasks) = 1
     /\ <<tasks, req>>' # <<tasks, req>> =>
          \A c \in Clients, p \in Programs, d \in Databases, s \in Sequences :
            ~BlastBegin(c, "GET", p, d, s)]_vars

\* C8 witness: one request has stored its task and another has done the
\* three steps before the store.
C8_Witness ==
  /\ tasks # {}
  /\ \E c \in Clients : req[c].pc = "commit" /\ StepsDone(c)

\* C9: every submission whose fetch and normalization succeeded adds exactly
\* one new Task, owned by the submitting user and holding the serialized
\* output of the normalizer, also when two submissions use the same program
\* and database within one second.
C9_EverySubmissionStored ==
  [][\A c \in Clients :
       (req[c].pc = "commit" /\ req'[c] # req[c]) =>
         \E t \in tasks' :
           /\ t \notin tasks
           /\ tasks' = tasks \cup {t}
           /\ t.user_id = req[c].user
           /\ t.result = req[c].task.result]_vars

\* C10: delete_task removes a task only when it exists and the current user
\* owns it, and then that task alone; otherwise the Task table is unchanged;
\* the User table is unchanged in every case.  A task leaves the table only
\* through a delete request of its owner.  (A step that changes neither
\* table removes nothing and satisfies all of this.)
C10_OnlyOwnerDeletes ==
  [][\/ /\ tasks' = tasks
        /\ users' = users
     \/ /\ \A t \in tasks :
             t \notin tasks' =>
               \E c \in Clients :
                 /\ session[c] = t.user_id
                 /\ delete_task(c, t.id)
                 /\ tasks' = tasks \ {t}
        /\ \A c \in Clients, id \in 1..MaxTasks :
             \/ /\ users' = users
                /\ tasks' \subseteq tasks
                /\ (~\E t \in tasks : t.id = id /\ t.user_id = session[c]) => tasks' = tasks
             \/ ~delete_task(c, id)]_vars

\* C10 witness: the row of key 1 is gone, a row of another key is left, and
\* a browser is logged in as a user who does not own the row that is left.
C10_Witness ==
  /\ \E t \in tasks : t.id = 2
  /\ ~\E t \in tasks : t.id = 1
  /\ \E c \in Clients : session[c] # NoUser /\ \E t \in tasks : t.user_id # session[c]

====
